---------------------------- MODULE Spec2Model ----------------------------
(***************************************************************************)
(* Model of EncoderTool::EncoderBase<counter_t> (src/src/EncoderBase.h):   *)
(* the table driven quadrature decoder, the bounded counter with its       *)
(* saturate / wrap policy, the time based acceleration and the callback    *)
(* dispatch of update().                                                   *)
(***************************************************************************)
EXTENDS Integers, Sequences, FiniteSets, TLC

(***************************************************************************)
(* Bounds of the model.                                                    *)
(***************************************************************************)
\* counter_t is modelled as a signed two's complement integer of this width
CounterBits == 6
\* unsigned long (the type of millis() and lastUpdateTime) has this width
TimeBits == 10
\* longest run of samples followed after begin() in the turning scenarios
MaxSteps == 8

TypeMod == 2 ^ CounterBits
\* std::numeric_limits<counter_t>::min() and ::max()
TypeMin == 0 - 2 ^ (CounterBits - 1)
TypeMax == 2 ^ (CounterBits - 1) - 1
TimeMod == 2 ^ TimeBits

\* result of a counter_t addition that leaves the type's range and wraps
Wrap(x) == ((x - TypeMin) % TypeMod) + TypeMin

Bit == {0, 1}
\* values millis() is observed to return
TimePoints == {0, 40}
\* arguments setLimits is called with (min, max, periodic)
LimitArgs ==
  { <<5, 10, FALSE>>, <<0, 10, TRUE>>, <<0, TypeMax, FALSE>>,
    <<TypeMin, 0, FALSE>>, <<3, 3, FALSE>> }

(***************************************************************************)
(* enum states                                                             *)
(***************************************************************************)
A == 0
B_cw == 1
C_cw == 3
D_cw == 2
B_ccw == 4
C_ccw == 6
D_ccw == 5
UP == 16
DOWN == 32
ERR == 48

CountModes == {"quarter", "quarterInv", "half", "halfAlt", "full"}
AccelerationModes == {"NONE", "SLOW", "MEDIUM", "FAST"}

(***************************************************************************)
(* The three transition tables, row = current state, column = input.       *)
(* A cell holds the next state in its low nibble and the direction tag in  *)
(* its high nibble.                                                        *)
(***************************************************************************)
\* stateMachineQtr with the jump 00 -> 11 in state A taken for two steps
\* instead of being tagged as an error
stateMachineQtrJump ==
  << <<A, B_cw, D_ccw, C_cw>>,
     <<A, B_cw, B_cw + ERR, C_cw>>,
     <<A + UP, D_cw + ERR, D_cw, C_cw>>,
     <<C_cw + ERR, B_cw, D_cw, C_cw>>,
     <<A + DOWN, B_ccw, B_ccw + ERR, C_ccw>>,
     <<A, D_ccw + ERR, D_ccw, C_ccw>>,
     <<C_ccw + ERR, B_ccw, D_ccw, C_ccw>> >>

stateMachineQtr ==
  << <<A, B_cw, D_ccw, A + ERR>>,
     <<A, B_cw, B_cw + ERR, C_cw>>,
     <<A + UP, D_cw + ERR, D_cw, C_cw>>,
     <<C_cw + ERR, B_cw, D_cw, C_cw>>,
     <<A + DOWN, B_ccw, B_ccw + ERR, C_ccw>>,
     <<A, D_ccw + ERR, D_ccw, C_ccw>>,
     <<C_ccw + ERR, B_ccw, D_ccw, C_ccw>> >>

\* stateMachineHalf with D_ccw going on to C_ccw on input 11, as in the
\* quarter table, instead of to C_cw with a DOWN count
stateMachineHalfCcw ==
  << <<A, B_cw, D_ccw, A + ERR>>,
     <<A, B_cw, B_cw + ERR, C_cw + UP>>,
     <<A + UP, D_cw + ERR, D_cw, C_cw>>,
     <<C_cw + ERR, B_ccw, D_cw, C_cw>>,
     <<A + DOWN, B_ccw, B_ccw + ERR, C_cw>>,
     <<A, B_ccw + ERR, D_ccw, C_ccw>>,
     <<C_ccw + ERR, C_ccw + ERR, C_ccw + ERR, C_ccw + ERR>> >>

\* stateMachineHalf with C_cw going back to B_cw on input 01, as in the
\* quarter table, instead of to B_ccw
stateMachineHalfNoAlias ==
  << <<A, B_cw, D_ccw, A + ERR>>,
     <<A, B_cw, B_cw + ERR, C_cw + UP>>,
     <<A + UP, D_cw + ERR, D_cw, C_cw>>,
     <<C_cw + ERR, B_cw, D_cw, C_cw>>,
     <<A + DOWN, B_ccw, B_ccw + ERR, C_cw>>,
     <<A, B_ccw + ERR, D_ccw, C_cw + DOWN>>,
     <<C_ccw + ERR, C_ccw + ERR, C_ccw + ERR, C_ccw + ERR>> >>

stateMachineHalf ==
  << <<A, B_cw, D_ccw, A + ERR>>,
     <<A, B_cw, B_cw + ERR, C_cw + UP>>,
     <<A + UP, D_cw + ERR, D_cw, C_cw>>,
     <<C_cw + ERR, B_ccw, D_cw, C_cw>>,
     <<A + DOWN, B_ccw, B_ccw + ERR, C_cw>>,
     <<A, B_ccw + ERR, D_ccw, C_cw + DOWN>>,
     <<C_ccw + ERR, C_ccw + ERR, C_ccw + ERR, C_ccw + ERR>> >>

\* stateMachineFull counting only on the transition that closes a cycle
stateMachineFullOneCount ==
  << <<A, B_cw, D_cw, A + ERR>>,
     <<A + DOWN, B_cw, B_cw + ERR, C_cw>>,
     <<A + UP, D_cw + ERR, D_cw, C_cw>>,
     <<C_cw + ERR, B_cw, D_cw, C_cw>>,
     <<0, 0, 0, 0>>,
     <<0, 0, 0, 0>>,
     <<0, 0, 0, 0>> >>

\* the initializer gives rows 0..3; the remaining rows of the [7][4] array
\* are zero-initialized
stateMachineFull ==
  << <<A, B_cw + UP, D_cw + DOWN, A + ERR>>,
     <<A + DOWN, B_cw, B_cw + ERR, C_cw + UP>>,
     <<A + UP, D_cw + ERR, D_cw, C_cw + DOWN>>,
     <<C_cw + ERR, B_cw + DOWN, D_cw + UP, C_cw>>,
     <<0, 0, 0, 0>>,
     <<0, 0, 0, 0>>,
     <<0, 0, 0, 0>> >>

\* the table a stateMachine pointer designates
Table(sm) ==
  CASE sm = "Qtr" -> stateMachineQtr
    [] sm = "Half" -> stateMachineHalf
    [] sm = "Full" -> stateMachineFull

\* (*stateMachine)[state][input]
Lookup(sm, state, input) == Table(sm)[state + 1][input + 1]

\* a stateMachine pointer left nullptr by the constructor
NoStateMachine == "null"

\* the default member initializers of stateMachine and invert
DefaultStateMachine == "Full"
DefaultInvert == 0

\* table and inversion mask setCountMode installs
ModeTable(mode) ==
  CASE mode = "quarter" -> "Qtr"
    [] mode = "quarterInv" -> "Qtr"
    [] mode = "half" -> "Half"
    [] mode = "halfAlt" -> "Half"
    [] OTHER -> "Full"

ModeInvert(mode) ==
  CASE mode = "quarter" -> 3
    [] mode = "quarterInv" -> 0
    [] mode = "half" -> 0
    [] mode = "halfAlt" -> 1
    [] OTHER -> 0

\* x ^ y on two-bit values
Xor2(x, y) ==
  2 * (((x \div 2) + (y \div 2)) % 2) + (((x % 2) + (y % 2)) % 2)

\* (phaseA << 1 | phaseB) ^ invert
Input(phaseA, phaseB, inv) == Xor2(2 * phaseA + phaseB, inv)

\* entry & 0xF0
DirectionOf(entry) == (entry \div 16) * 16

\* the table entry stored without removing the direction tag
KeepDirection(entry) == entry

\* entry & 0x0F
StripDirection(entry) == entry % 16

(***************************************************************************)
(* Acceleration.                                                           *)
(***************************************************************************)
\* the largest multiplier of the acceleration curves
MaxMultiplier == 20

\* the FAST curve with its two fastest tiers exchanged
MultiplierSwapped(mode, timeDelta) ==
  CASE mode = "SLOW" ->
         IF timeDelta < 20 THEN 5
         ELSE IF timeDelta < 50 THEN 3
         ELSE IF timeDelta < 100 THEN 2
         ELSE 1
    [] mode = "MEDIUM" ->
         IF timeDelta < 30 THEN 12
         ELSE IF timeDelta < 60 THEN 6
         ELSE IF timeDelta < 120 THEN 3
         ELSE IF timeDelta < 250 THEN 2
         ELSE 1
    [] mode = "FAST" ->
         IF timeDelta < 30 THEN 12
         ELSE IF timeDelta < 60 THEN 20
         ELSE IF timeDelta < 120 THEN 6
         ELSE IF timeDelta < 250 THEN 3
         ELSE 1
    [] OTHER -> 1

Multiplier(mode, timeDelta) ==
  CASE mode = "SLOW" ->
         IF timeDelta < 20 THEN 5
         ELSE IF timeDelta < 50 THEN 3
         ELSE IF timeDelta < 100 THEN 2
         ELSE 1
    [] mode = "MEDIUM" ->
         IF timeDelta < 30 THEN 12
         ELSE IF timeDelta < 60 THEN 6
         ELSE IF timeDelta < 120 THEN 3
         ELSE IF timeDelta < 250 THEN 2
         ELSE 1
    [] mode = "FAST" ->
         IF timeDelta < 30 THEN 20
         ELSE IF timeDelta < 60 THEN 12
         ELSE IF timeDelta < 120 THEN 6
         ELSE IF timeDelta < 250 THEN 3
         ELSE 1
    [] OTHER -> 1

VARIABLES
  value,           \* counter_t value
  minVal,          \* counter_t minVal
  maxVal,          \* counter_t maxVal
  valChanged,      \* bool valChanged
  button,          \* EncoderButton button (its debounced state)
  btnChanged,      \* bool btnChanged
  periodic,        \* bool periodic
  invert,          \* unsigned invert
  callback,        \* encCallback_t callback (TRUE: registered, FALSE: nullptr)
  btnCallback,     \* encBtnCallback_t btnCallback
  accelMode,       \* AccelerationMode accelMode
  lastUpdateTime,  \* unsigned long lastUpdateTime
  stateMachine,    \* const uint8_t (*stateMachine)[7][4]
  curState,        \* uint8_t curState
  out,             \* what the last call did: arguments, decoded direction,
                   \* returned delta, callbacks invoked (in order)
  turn,            \* bookkeeping of the shaft position in the turning scenarios
  seeded,          \* begin() was called and setCountMode() not since
  pending,         \* what happened to value since the last valueChanged()
  prev,            \* out of the call before the last (acceleration scenarios)
  frames           \* update() calls in flight, innermost first (nested
                   \* interrupt scenarios); empty while calls are sequential

engine ==
  <<value, minVal, maxVal, valChanged, button, btnChanged, periodic, invert,
    callback, btnCallback, accelMode, lastUpdateTime, stateMachine, curState>>

\* the bookkeeping that the calls of the sequential scenarios leave alone
aside == <<turn, pending, prev, frames>>

vars == <<engine, out, turn, seeded, pending, prev, frames>>

\* out after a call that is neither begin nor update
Idle ==
  [op |-> "none", pa |-> 0, pb |-> 0, btn |-> 0, seed |-> <<>>, from |-> 0,
   dir |-> 0, old |-> 0, delta |-> 0, ret |-> 0, set |-> FALSE,
   fwd |-> <<>>, pressed |-> FALSE, calls |-> <<>>, flag |-> FALSE,
   elapsed |-> 0, last |-> 0, nest |-> <<>>]

\* pending when nothing happened to value since the last valueChanged():
\*   mutated, accepted        since the last valueChanged(), value was
\*                            changed / an update() returned a non-zero delta
\*   wasMutated, wasAccepted  the same two, as they stood when the last
\*                            valueChanged() was called
Clean ==
  [mutated |-> FALSE, accepted |-> FALSE, wasMutated |-> FALSE,
   wasAccepted |-> FALSE]

TurnOff ==
  [on |-> FALSE, start |-> 0, prev |-> 0, n |-> 0, pos |-> 0, cpos |-> 0,
   net |-> 0, nz |-> 0]

(***************************************************************************)
(* State after construction (the default member initializers).             *)
(***************************************************************************)
Constructed ==
  /\ value = 0
  /\ minVal = TypeMin
  /\ maxVal = TypeMax
  /\ valChanged = FALSE
  /\ button = 0
  /\ btnChanged = FALSE
  /\ periodic = TRUE
  /\ invert = DefaultInvert
  /\ callback = FALSE
  /\ btnCallback = FALSE
  /\ accelMode = "NONE"
  /\ lastUpdateTime = 0
  /\ stateMachine = DefaultStateMachine
  /\ curState = 0

Init ==
  /\ Constructed
  /\ out = Idle
  /\ turn = TurnOff
  /\ seeded = FALSE
  /\ pending = Clean
  /\ prev = Idle
  /\ frames = <<>>

(***************************************************************************)
(* Configuration calls.                                                    *)
(***************************************************************************)
SetCountModeCall(mode) ==
  /\ stateMachine' = ModeTable(mode)
  /\ invert' = ModeInvert(mode)
  /\ out' = Idle
  /\ UNCHANGED <<value, minVal, maxVal, valChanged, button, btnChanged, periodic,
                 callback, btnCallback, accelMode, lastUpdateTime, curState>>

SetLimitsCall(min, max, p) ==
  /\ IF min < max
       THEN /\ minVal' = min
            /\ maxVal' = max
            /\ periodic' = p
       ELSE /\ minVal' = TypeMin
            /\ maxVal' = TypeMax
            /\ periodic' = TRUE
  /\ out' = Idle
  /\ UNCHANGED <<value, valChanged, button, btnChanged, invert, callback,
                 btnCallback, accelMode, lastUpdateTime, stateMachine, curState>>

SetAccelerationCall(mode) ==
  /\ accelMode' = mode
  /\ out' = Idle
  /\ UNCHANGED <<value, minVal, maxVal, valChanged, button, btnChanged, periodic,
                 invert, callback, btnCallback, lastUpdateTime, stateMachine,
                 curState>>

AttachCallbackCall(cb) ==
  /\ callback' = cb
  /\ out' = Idle
  /\ UNCHANGED <<value, minVal, maxVal, valChanged, button, btnChanged, periodic,
                 invert, btnCallback, accelMode, lastUpdateTime, stateMachine,
                 curState>>

\* begin() that seeds the decoder with the raw phases, without the mask
BeginCallUnmasked(phaseA, phaseB) ==
  /\ curState' = 2 * phaseA + phaseB
  /\ out' = [Idle EXCEPT !.op = "begin", !.pa = phaseA, !.pb = phaseB]
  /\ UNCHANGED <<value, minVal, maxVal, valChanged, button, btnChanged, periodic,
                 invert, callback, btnCallback, accelMode, lastUpdateTime,
                 stateMachine>>

BeginCall(phaseA, phaseB) ==
  /\ curState' = Input(phaseA, phaseB, invert)
  /\ out' = [Idle EXCEPT !.op = "begin", !.pa = phaseA, !.pb = phaseB]
  /\ UNCHANGED <<value, minVal, maxVal, valChanged, button, btnChanged, periodic,
                 invert, callback, btnCallback, accelMode, lastUpdateTime,
                 stateMachine>>

(***************************************************************************)
(* update()                                                                *)
(***************************************************************************)
\* EncoderButton::update(btn): TRUE when the debounced state changed
ButtonChanges(btn) == btn # button

\* timeDelta = currentTime - lastUpdateTime, an unsigned difference
TimeDelta(now) == (now - lastUpdateTime) % TimeMod

\* lastUpdateTime after getAcceleratedDelta() with millis() returning now
AcceleratedTime(now) == IF accelMode = "NONE" THEN lastUpdateTime ELSE now

\* getAcceleratedDelta(baseDelta) with millis() returning now
getAcceleratedDelta(baseDelta, now) ==
  IF accelMode = "NONE" THEN baseDelta
  ELSE baseDelta * Multiplier(accelMode, TimeDelta(now))

\* CountUp whose partial branch hands the callback the full accelerated delta
\* instead of the delta it applied.
CountUpFullDeltaCallback(v, delta, wraps) ==
  LET sum == v + delta
      over == sum > TypeMax
      full == IF over THEN wraps /\ Wrap(sum) <= maxVal ELSE sum <= maxVal
  IN  IF full
        THEN [value |-> Wrap(sum), changed |-> TRUE,
              call |-> <<Wrap(sum), delta>>, ret |-> delta]
      ELSE IF v < maxVal
        THEN [value |-> maxVal, changed |-> TRUE,
              call |-> <<maxVal, delta>>, ret |-> maxVal - v]
      ELSE IF periodic
        THEN [value |-> minVal, changed |-> TRUE,
              call |-> <<minVal, delta>>, ret |-> delta]
      ELSE [value |-> maxVal, changed |-> FALSE, call |-> <<>>, ret |-> 0]

\* The UP branch on value v.  value + delta is a counter_t addition: when the
\* sum leaves the type's range the behaviour is undefined, and the build
\* either wraps it (wraps = TRUE) or evaluates the comparison on the
\* mathematical sum (wraps = FALSE).  The result gives the value written,
\* whether the branch sets valChanged, the arguments it passes to the value
\* callback (<<>> in the branch that has no callback statement) and the
\* delta it returns.
CountUp(v, delta, wraps) ==
  LET sum == v + delta
      over == sum > TypeMax
      full == IF over THEN wraps /\ Wrap(sum) <= maxVal ELSE sum <= maxVal
  IN  IF full
        THEN [value |-> Wrap(sum), changed |-> TRUE,
              call |-> <<Wrap(sum), delta>>, ret |-> delta]
      ELSE IF v < maxVal
        THEN [value |-> maxVal, changed |-> TRUE,
              call |-> <<maxVal, maxVal - v>>, ret |-> maxVal - v]
      ELSE IF periodic
        THEN [value |-> minVal, changed |-> TRUE,
              call |-> <<minVal, delta>>, ret |-> delta]
      ELSE [value |-> maxVal, changed |-> FALSE, call |-> <<>>, ret |-> 0]

\* The DOWN branch on value v (delta is negative).
CountDown(v, delta, wraps) ==
  LET sum == v + delta
      over == sum < TypeMin
      full == IF over THEN wraps /\ Wrap(sum) >= minVal ELSE sum >= minVal
  IN  IF full
        THEN [value |-> Wrap(sum), changed |-> TRUE,
              call |-> <<Wrap(sum), delta>>, ret |-> delta]
      ELSE IF v > minVal
        THEN [value |-> minVal, changed |-> TRUE,
              call |-> <<minVal, minVal - v>>, ret |-> minVal - v]
      ELSE IF periodic
        THEN [value |-> maxVal, changed |-> TRUE,
              call |-> <<maxVal, delta>>, ret |-> delta]
      ELSE [value |-> minVal, changed |-> FALSE, call |-> <<>>, ret |-> 0]

\* The raw button samples update(.., btn) hands to button.update(), its
\* first statement, before the table is looked at.
ButtonFirst(btn) == <<btn>>

\* update() that runs the counting branch before it looks at the button
DispatchValueFirst(btnCalls, valCalls) == valCalls \o btnCalls

\* The callbacks of one update() in the order of its statements: the button
\* callback (line 296) precedes the value callbacks of the counting branches.
Dispatch(btnCalls, valCalls) == btnCalls \o valCalls

\* update(phaseA, phaseB, btn), with millis() returning now
UpdateCall(phaseA, phaseB, btn, now, wraps) ==
  LET pressed == ButtonChanges(btn)
      btnCalls == IF pressed /\ btnCallback THEN << <<"btn", btn>> >> ELSE <<>>
      input == Input(phaseA, phaseB, invert)
      seed == IF out.op = "begin" THEN <<out.pa, out.pb>> ELSE <<>>
      base == [Idle EXCEPT !.op = "update", !.pa = phaseA, !.pb = phaseB,
                           !.btn = btn, !.seed = seed, !.from = curState,
                           !.old = value, !.fwd = ButtonFirst(btn),
                           !.pressed = pressed, !.calls = btnCalls]
  IN
  /\ button' = btn
  /\ btnChanged' = (btnChanged \/ pressed)
  /\ IF stateMachine = "null"
       THEN /\ out' = base
            /\ UNCHANGED <<value, valChanged, lastUpdateTime, curState>>
       ELSE
         LET entry == Lookup(stateMachine, curState, input)
             direction == DirectionOf(entry)
             delta == IF direction = UP THEN getAcceleratedDelta(1, now)
                      ELSE IF direction = DOWN THEN getAcceleratedDelta(0 - 1, now)
                      ELSE 0
             res == IF direction = UP THEN CountUp(value, delta, wraps)
                    ELSE IF direction = DOWN THEN CountDown(value, delta, wraps)
                    ELSE [value |-> value, changed |-> FALSE, call |-> <<>>,
                          ret |-> 0]
             valCalls == IF res.call # <<>> /\ callback
                           THEN << <<"val">> \o res.call >> ELSE <<>>
         IN
         /\ curState' = StripDirection(entry)
         /\ lastUpdateTime' =
              IF direction \in {UP, DOWN} THEN AcceleratedTime(now)
              ELSE lastUpdateTime
         /\ value' = res.value
         /\ valChanged' = (valChanged \/ res.changed)
         /\ out' = [base EXCEPT !.dir = direction, !.delta = delta,
                                !.ret = res.ret, !.set = res.changed,
                                !.calls = Dispatch(btnCalls, valCalls)]
  /\ UNCHANGED <<minVal, maxVal, periodic, invert, callback, btnCallback,
                 accelMode, stateMachine>>

(***************************************************************************)
(* Inputs of update() that can make a difference in the current state:     *)
(* millis() is read only when acceleration is on, and value + delta can    *)
(* leave the type's range only within the largest multiplier of its ends.  *)
(***************************************************************************)
Clock == IF accelMode = "NONE" THEN {0} ELSE TimePoints

OverflowOutcomes ==
  IF value + MaxMultiplier > TypeMax \/ value - MaxMultiplier < TypeMin
    THEN BOOLEAN ELSE {FALSE}

(***************************************************************************)
(* Spec: the engine as constructed (setCountMode and begin never called,   *)
(* so the decoder starts in state A with the constructor's table) driven   *)
(* through the counter's interface, calls in any order.                    *)
(***************************************************************************)
SetLimits ==
  \E l \in LimitArgs :
    SetLimitsCall(l[1], l[2], l[3]) /\ UNCHANGED <<aside, seeded>>

SetAcceleration ==
  \E mode \in AccelerationModes :
    SetAccelerationCall(mode) /\ UNCHANGED <<aside, seeded>>

AttachCallback == AttachCallbackCall(TRUE) /\ UNCHANGED <<aside, seeded>>

Update ==
  \E a \in Bit, b \in Bit, now \in Clock, wraps \in OverflowOutcomes :
    UpdateCall(a, b, 0, now, wraps) /\ UNCHANGED <<aside, seeded>>

Next ==
  \/ SetLimits
  \/ SetAcceleration
  \/ AttachCallback
  \/ Update

Spec == Init /\ [][Next]_vars

(***************************************************************************)
(* SpecDecoder: the decoder under every count mode, setCountMode, begin    *)
(* and update interleaved in any order.                                    *)
(***************************************************************************)
SetCountMode ==
  /\ \E mode \in CountModes : SetCountModeCall(mode)
  /\ seeded' = FALSE
  /\ UNCHANGED aside

Begin ==
  /\ \E a \in Bit, b \in Bit : BeginCall(a, b)
  /\ seeded' = TRUE
  /\ UNCHANGED aside

NextDecoder ==
  \/ SetCountMode
  \/ AttachCallback
  \/ Begin
  \/ Update

SpecDecoder == Init /\ [][NextDecoder]_vars

(***************************************************************************)
(* SpecTurn: the engine is configured, seeded with begin() at the shaft's  *)
(* position, and then sampled while the shaft turns one quadrature phase   *)
(* at a time, clockwise (00 -> 01 -> 11 -> 10 -> 00) or counter-clockwise. *)
(* turn records the samples fed since begin():                             *)
(*   start, prev  the sample given to begin() and the last sample fed      *)
(*   n            number of update() calls                                 *)
(*   pos, cpos    net clockwise phase steps of the raw samples and of the  *)
(*                samples after the inversion mask                         *)
(*   net          updates that decoded UP minus updates that decoded DOWN  *)
(*   nz           update() calls that returned a non-zero delta            *)
(***************************************************************************)
CwNext(r) == CASE r = 0 -> 1 [] r = 1 -> 3 [] r = 3 -> 2 [] r = 2 -> 0

CcwNext(r) == CASE r = 0 -> 2 [] r = 2 -> 3 [] r = 3 -> 1 [] r = 1 -> 0

TurnSetCountMode == ~turn.on /\ SetCountMode

TurnSetLimits ==
  ~turn.on /\ SetLimitsCall(0, 3, TRUE) /\ UNCHANGED <<aside, seeded>>

TurnSetAcceleration ==
  ~turn.on /\ SetAccelerationCall("SLOW") /\ UNCHANGED <<aside, seeded>>

TurnBegin ==
  /\ ~turn.on
  /\ \E a \in Bit, b \in Bit :
       /\ BeginCall(a, b)
       /\ turn' = [TurnOff EXCEPT !.on = TRUE, !.start = 2 * a + b,
                                  !.prev = 2 * a + b]
  /\ seeded' = TRUE
  /\ UNCHANGED <<pending, prev, frames>>

TurnStep(r) ==
  /\ turn.on
  /\ turn.n < MaxSteps
  /\ \E now \in Clock, wraps \in OverflowOutcomes :
       UpdateCall(r \div 2, r % 2, 0, now, wraps)
  /\ turn' =
       [turn EXCEPT
          !.prev = r,
          !.n = @ + 1,
          !.pos = @ + (IF r = CwNext(turn.prev) THEN 1 ELSE 0 - 1),
          !.cpos = @ + (IF Xor2(r, invert) = CwNext(Xor2(turn.prev, invert))
                          THEN 1 ELSE 0 - 1),
          !.net = @ + (IF out'.dir = UP THEN 1
                       ELSE IF out'.dir = DOWN THEN 0 - 1 ELSE 0),
          !.nz = @ + (IF out'.ret # 0 THEN 1 ELSE 0)]
  /\ UNCHANGED <<seeded, pending, prev, frames>>

TurnCw == TurnStep(CwNext(turn.prev))

TurnCcw == TurnStep(CcwNext(turn.prev))

NextTurn ==
  \/ TurnSetCountMode
  \/ TurnSetLimits
  \/ TurnSetAcceleration
  \/ TurnBegin
  \/ TurnCw
  \/ TurnCcw

SpecTurn == Init /\ [][NextTurn]_vars

(***************************************************************************)
(* Observations on the last call.                                          *)
(***************************************************************************)
Updated == out.op = "update"

\* the value callback invocations of the last call, as <<value, delta>>
ValueCalls ==
  [i \in 1..Len(SelectSeq(out.calls, LAMBDA c : c[1] = "val")) |->
     Tail(SelectSeq(out.calls, LAMBDA c : c[1] = "val")[i])]

\* value + delta of the last update left the range of counter_t
Overflowed ==
  /\ Updated
  /\ out.dir \in {UP, DOWN}
  /\ out.old + out.delta \notin TypeMin..TypeMax

(***************************************************************************)
(* C1. Bounds invariant: whatever limits setLimits and whatever            *)
(* acceleration setAcceleration install, and after any sequence of update  *)
(* calls (setValue never called), minVal <= value <= maxVal holds after    *)
(* every operation, setLimits included.                                    *)
(***************************************************************************)
BoundsInvariant == minVal <= value /\ value <= maxVal

(***************************************************************************)
(* C2. Saturation: with periodic = false and value = maxVal, an update     *)
(* that decodes UP returns 0, leaves value = maxVal, does not set          *)
(* valChanged and does not invoke the value callback; symmetrically for    *)
(* DOWN at value = minVal.                                                 *)
(***************************************************************************)
Rejected ==
  /\ out.ret = 0
  /\ value = out.old
  /\ ~out.set
  /\ ValueCalls = <<>>

Saturation ==
  (Updated /\ ~periodic) =>
    /\ (out.dir = UP /\ out.old = maxVal) => Rejected
    /\ (out.dir = DOWN /\ out.old = minVal) => Rejected

\* C2 away from the ends of counter_t: the same statement for the updates
\* whose sum value + delta stays in the type's range
SaturationWithoutOverflow == Overflowed \/ Saturation

(***************************************************************************)
(* C3. Wraparound: with periodic = true and value = maxVal, an update that *)
(* decodes UP sets value to minVal and returns, and passes to the          *)
(* callback, the full accelerated delta; symmetrically DOWN at             *)
(* value = minVal sets value to maxVal and reports the full negative       *)
(* accelerated delta.                                                      *)
(***************************************************************************)
Reported(v, d) ==
  /\ value = v
  /\ out.ret = d
  /\ out.set
  /\ ValueCalls = (IF callback THEN << <<v, d>> >> ELSE <<>>)

Wraparound ==
  (Updated /\ periodic) =>
    /\ (out.dir = UP /\ out.old = maxVal) =>
         (out.delta >= 1 /\ Reported(minVal, out.delta))
    /\ (out.dir = DOWN /\ out.old = minVal) =>
         (out.delta <= 0 - 1 /\ Reported(maxVal, out.delta))

\* C3 away from the ends of counter_t
WraparoundWithoutOverflow == Overflowed \/ Wraparound

(***************************************************************************)
(* C4. Partial delta: an UP decoded with minVal <= value < maxVal and      *)
(* value + acceleratedDelta > maxVal ends at value = maxVal and returns,   *)
(* and passes to the callback, maxVal - oldValue, periodic or not;         *)
(* symmetrically for DOWN towards minVal.                                  *)
(***************************************************************************)
PartialDelta ==
  Updated =>
    /\ ( /\ out.dir = UP
         /\ minVal <= out.old
         /\ out.old < maxVal
         /\ out.old + out.delta > maxVal ) => Reported(maxVal, maxVal - out.old)
    /\ ( /\ out.dir = DOWN
         /\ out.old <= maxVal
         /\ minVal < out.old
         /\ out.old + out.delta < minVal ) => Reported(minVal, minVal - out.old)

\* C4 away from the ends of counter_t
PartialDeltaWithoutOverflow == Overflowed \/ PartialDelta

(***************************************************************************)
(* C5. Full-mode scenario: CountMode full, setLimits(0, 3, periodic),      *)
(* acceleration NONE, value 0, begin(0, 0), then the four samples          *)
(* 01, 11, 10, 00.  FullCycleFed describes the state after the k-th of     *)
(* these samples.                                                          *)
(***************************************************************************)
FullCycleFed(k) ==
  /\ turn.on
  /\ stateMachine = "Full"
  /\ invert = 0
  /\ minVal = 0
  /\ maxVal = 3
  /\ periodic
  /\ accelMode = "NONE"
  /\ turn.start = 0
  /\ turn.n = k
  /\ turn.pos = k

\* C5 as claimed: over the four samples exactly one update returns a
\* non-zero delta (one count event per full quadrature cycle)
FullCycleOneCount == FullCycleFed(4) => turn.nz = 1

\* C5 as the code has it: each of the four samples decodes UP and returns
\* delta 1 (four count events per cycle); value runs 1, 2, 3 and wraps to 0
FullCycleFourCounts ==
  \A k \in 1..4 :
    FullCycleFed(k) =>
      /\ out.dir = UP
      /\ out.ret = 1
      /\ turn.nz = k
      /\ turn.net = k
      /\ value = k % 4

FullCycleFourCountsWitness ==
  FullCycleFed(4) /\ turn.nz = 4 /\ value = 0 /\ out.old = 3

(***************************************************************************)
(* C6. Counts per cycle: acceleration NONE, full-range limits, decoder     *)
(* started in state A (begin() at a sample the mask corrects to 00), every *)
(* sample one phase step from the previous one.  Whenever the decoder is   *)
(* back in state A, UP events minus DOWN events equal k times the net      *)
(* number of completed cycles of the corrected sequence, k = 1 with the    *)
(* quarter table (quarter, quarterInv) and k = 2 with the half table       *)
(* (half, halfAlt); value, which started at 0, holds that count.           *)
(***************************************************************************)
CountsPerCycleOf(sm) == IF sm = "Half" THEN 2 ELSE 1

StartedAtA ==
  /\ turn.on
  /\ Xor2(turn.start, invert) = 0
  /\ stateMachine \in {"Qtr", "Half"}
  /\ accelMode = "NONE"
  /\ minVal = TypeMin
  /\ maxVal = TypeMax

CountsPerCycle ==
  (StartedAtA /\ curState = A) =>
    /\ turn.cpos % 4 = 0
    /\ turn.net = CountsPerCycleOf(stateMachine) * (turn.cpos \div 4)
    /\ value = turn.net

\* halfAlt mode, eight samples with reversals that complete one net cycle of
\* the corrected sequence: back in A with two counts
CountsPerCycleWitness ==
  /\ StartedAtA
  /\ curState = A
  /\ stateMachine = "Half"
  /\ invert = 1
  /\ turn.n = 8
  /\ turn.cpos = 4
  /\ value = 2

(***************************************************************************)
(* C7. Monotonicity: in every count mode and configuration, feeding the    *)
(* clockwise phase sequence 00 -> 01 -> 11 -> 10 -> 00 ... after begin()   *)
(* never decreases value from one update to the next, except for a wrap at *)
(* value = maxVal with periodic = true.                                    *)
(***************************************************************************)
ClockwiseMonotone ==
  (turn.on /\ Updated /\ turn.pos = turn.n) =>
    \/ value >= out.old
    \/ (periodic /\ out.old = maxVal)

\* C7 for the modes whose mask preserves the sense of rotation, away from
\* the ends of counter_t
ClockwiseMonotoneUnmirrored ==
  (invert \in {0, 3} /\ ~Overflowed) => ClockwiseMonotone

(***************************************************************************)
(* C8. Error path: after begin(a, b) the call update(1-a, 1-b) decodes the *)
(* error direction, returns 0, leaves value unchanged, does not set        *)
(* valChanged and does not invoke the value callback, in every count mode. *)
(***************************************************************************)
BothPhasesFlipped ==
  /\ Updated
  /\ out.seed = <<1 - out.pa, 1 - out.pb>>

ErrorPath == BothPhasesFlipped => (out.dir = ERR /\ Rejected)

ErrorPathWitness ==
  /\ BothPhasesFlipped
  /\ out.dir = ERR
  /\ callback
  /\ stateMachine = "Half"
  /\ invert = 1
  /\ value # 0

(***************************************************************************)
(* C9. Decoder state range: after begin() and any interleaving of update() *)
(* and setCountMode() calls, curState is in 0..6 and carries no direction  *)
(* tag, and the direction decoded by an update is none, UP, DOWN or ERR;   *)
(* this includes the full table entered in a state of rows 4..6.           *)
(***************************************************************************)
StateRange ==
  /\ curState \in 0..6
  /\ curState \div 16 = 0
  /\ out.dir \in {0, UP, DOWN, ERR}

\* an update with the full table installed while curState was in rows 4..6
StateRangeWitness ==
  /\ Updated
  /\ stateMachine = "Full"
  /\ out.from \in {B_ccw, D_ccw, C_ccw}

(***************************************************************************)
(* C10. Uninitialized use: on a freshly constructed engine on which        *)
(* setCountMode was never called, update() performs no decoding: curState  *)
(* and value are unchanged, valChanged is not set, no value callback fires *)
(* and the call returns 0.                                                 *)
(***************************************************************************)
FreshUpdateIsNoOp == Updated => (curState = out.from /\ Rejected)

\* What update() does on a fresh engine instead: the member initializer
\* installs the full table with mask 0, the null-table return is never
\* taken, and update() decodes with that table: the first update(0, 1) in
\* state A counts up by one
FreshUpdateDecodesFull ==
  /\ stateMachine = "Full"
  /\ invert = 0
  /\ Updated =>
       /\ out.dir = DirectionOf(stateMachineFull[out.from + 1][2 * out.pa + out.pb + 1])
       /\ (out.dir # ERR) => curState = 2 * out.pa + out.pb
       /\ (out.from = A /\ out.pa = 0 /\ out.pb = 1 /\ accelMode = "NONE"
             /\ out.old < maxVal /\ out.old >= minVal) =>
            (out.dir = UP /\ Reported(out.old + 1, 1))

FreshUpdateDecodesFullWitness ==
  /\ Updated
  /\ out.seed = <<>>
  /\ out.from = A
  /\ out.pa = 0
  /\ out.pb = 1
  /\ out.old = 0
  /\ value = 1
  /\ out.ret = 1
  /\ minVal = TypeMin
  /\ maxVal = TypeMax


(***************************************************************************)
(* C11.  An update() that returns a non-zero delta has set valChanged and, *)
(* when a value callback is registered, has invoked it exactly once, with  *)
(* the value the call left behind and the very delta the call returned.    *)
(* This is so in the full-delta, the partial-delta and the wrap branch, in *)
(* both directions; without a callback nothing is invoked.                 *)
(***************************************************************************)
AcceptedMutation ==
  (Updated /\ out.ret # 0) =>
    /\ out.set
    /\ valChanged
    /\ ValueCalls = (IF callback THEN << <<value, out.ret>> >> ELSE <<>>)

\* a partial delta (applied delta differs from the accelerated one) was
\* reported to a registered callback
AcceptedMutationWitness ==
  /\ Updated
  /\ callback
  /\ out.dir = UP
  /\ out.ret # 0
  /\ out.ret # out.delta
  /\ value = maxVal

(***************************************************************************)
(* C12.  In every count mode, the first update() after begin(a, b) never   *)
(* decodes ERR when its sample is (a, b) or differs from it in exactly one *)
(* phase bit; update(a, b) itself decodes no direction and leaves curState *)
(* and value as they were.                                                 *)
(***************************************************************************)
SampleDistance ==
  (IF out.pa = out.seed[1] THEN 0 ELSE 1) + (IF out.pb = out.seed[2] THEN 0 ELSE 1)

SeededFirstUpdate ==
  (Updated /\ out.seed # <<>>) =>
    /\ (SampleDistance <= 1) => out.dir # ERR
    /\ (SampleDistance = 0) =>
         /\ out.dir = 0
         /\ out.ret = 0
         /\ curState = out.from
         /\ value = out.old

\* quarter mode (mask 0b11): begin(0, 0) seeded C_cw and update(0, 0) kept it
SeededFirstUpdateWitness ==
  /\ Updated
  /\ out.seed = <<0, 0>>
  /\ SampleDistance = 0
  /\ stateMachine = "Qtr"
  /\ invert = 3
  /\ curState = C_cw

(***************************************************************************)
(* SpecButton: the engine with a push button.  The limits are set to the   *)
(* saturating range 0..3 first; then update() is fed every phase sample    *)
(* and every raw button level, callbacks are attached and buttonChanged()  *)
(* is polled, in any order.                                                *)
(***************************************************************************)
AttachButtonCallbackCall(cb) ==
  /\ btnCallback' = cb
  /\ out' = Idle
  /\ UNCHANGED <<value, minVal, maxVal, valChanged, button, btnChanged, periodic,
                 invert, callback, accelMode, lastUpdateTime, stateMachine,
                 curState>>

\* buttonChanged(): read and clear
ButtonChangedCall ==
  /\ out' = [Idle EXCEPT !.op = "buttonChanged", !.flag = btnChanged]
  /\ btnChanged' = FALSE
  /\ UNCHANGED <<value, minVal, maxVal, valChanged, button, periodic, invert,
                 callback, btnCallback, accelMode, lastUpdateTime, stateMachine,
                 curState>>

ButtonSetLimits ==
  /\ maxVal = TypeMax
  /\ SetLimitsCall(0, 3, FALSE)
  /\ UNCHANGED <<aside, seeded>>

AttachButtonCallback == AttachButtonCallbackCall(TRUE) /\ UNCHANGED <<aside, seeded>>

ButtonChanged == ButtonChangedCall /\ UNCHANGED <<aside, seeded>>

ButtonUpdate ==
  /\ maxVal # TypeMax
  /\ \E a \in Bit, b \in Bit, btn \in Bit, now \in Clock,
        wraps \in OverflowOutcomes :
       UpdateCall(a, b, btn, now, wraps)
  /\ UNCHANGED <<aside, seeded>>

NextButton ==
  \/ ButtonSetLimits
  \/ AttachCallback
  \/ AttachButtonCallback
  \/ ButtonChanged
  \/ ButtonUpdate

SpecButton == Init /\ [][NextButton]_vars

(***************************************************************************)
(* C13.  Every update() hands its raw button sample to the button exactly  *)
(* once, before decoding and whatever the decoder then does (no direction, *)
(* UP, DOWN, ERR, rejected at a bound).  When the button reports a change, *)
(* btnChanged is set and the button callback, if registered, is invoked    *)
(* once with the new button state, before any value callback of the call;  *)
(* when it reports none, no button callback is invoked.                    *)
(***************************************************************************)
ButtonCalls == SelectSeq(out.calls, LAMBDA c : c[1] = "btn")

ButtonNeverStarved ==
  Updated =>
    /\ out.fwd = <<out.btn>>
    /\ out.pressed => btnChanged
    /\ ButtonCalls = (IF out.pressed /\ btnCallback
                        THEN << <<"btn", button>> >> ELSE <<>>)
    /\ \A i \in DOMAIN out.calls, j \in DOMAIN out.calls :
         (out.calls[i][1] = "btn" /\ out.calls[j][1] = "val") => i < j

\* one call reported a button change and an accepted count, both to callbacks
ButtonNeverStarvedWitness ==
  /\ Updated
  /\ out.pressed
  /\ btnCallback
  /\ callback
  /\ out.ret # 0
  /\ Len(out.calls) = 2

(***************************************************************************)
(* SpecPoll: the counter written by update() and by setValue() and polled  *)
(* with valueChanged(), calls in any order; the limits may be narrowed to  *)
(* the saturating range 0..3 at any time.                                  *)
(***************************************************************************)
SetValueValues == {0, 5}

SetValueCall(val) ==
  /\ value' = val
  /\ out' = [Idle EXCEPT !.op = "setValue", !.old = value]
  /\ UNCHANGED <<minVal, maxVal, valChanged, button, btnChanged, periodic,
                 invert, callback, btnCallback, accelMode, lastUpdateTime,
                 stateMachine, curState>>

\* valueChanged() that reads the flag without clearing it
ValueChangedCallPeek ==
  /\ out' = [Idle EXCEPT !.op = "valueChanged", !.flag = valChanged]
  /\ UNCHANGED engine

\* valueChanged(): read and clear
ValueChangedCall ==
  /\ out' = [Idle EXCEPT !.op = "valueChanged", !.flag = valChanged]
  /\ valChanged' = FALSE
  /\ UNCHANGED <<value, minVal, maxVal, button, btnChanged, periodic, invert,
                 callback, btnCallback, accelMode, lastUpdateTime, stateMachine,
                 curState>>

PollSetLimits ==
  /\ maxVal = TypeMax
  /\ SetLimitsCall(0, 3, FALSE)
  /\ UNCHANGED <<aside, seeded>>

PollSetValue ==
  /\ \E val \in SetValueValues : SetValueCall(val)
  /\ pending' = [pending EXCEPT !.mutated = @ \/ value' # value]
  /\ UNCHANGED <<turn, seeded, prev, frames>>

PollUpdate ==
  /\ \E a \in Bit, b \in Bit, now \in Clock, wraps \in OverflowOutcomes :
       UpdateCall(a, b, 0, now, wraps)
  /\ pending' = [pending EXCEPT !.mutated = @ \/ value' # value,
                                !.accepted = @ \/ out'.ret # 0]
  /\ UNCHANGED <<turn, seeded, prev, frames>>

PollValueChanged ==
  /\ ValueChangedCall
  /\ pending' = [Clean EXCEPT !.wasMutated = pending.mutated,
                              !.wasAccepted = pending.accepted]
  /\ UNCHANGED <<turn, seeded, prev, frames>>

NextPoll ==
  \/ PollSetLimits
  \/ PollSetValue
  \/ PollUpdate
  \/ PollValueChanged

SpecPoll == Init /\ [][NextPoll]_vars

Polled == out.op = "valueChanged"

(***************************************************************************)
(* C14.  valueChanged() returns true exactly when value was mutated, by    *)
(* update() or by setValue(), since the previous valueChanged() (or since  *)
(* construction): the first poll after a mutation returns true, and every  *)
(* further poll returns false until the next mutation.                     *)
(***************************************************************************)
ReadAndClearPerMutation == Polled => (out.flag = pending.wasMutated)

\* Supplementary to C14: the flag follows the update() calls that returned a
\* non-zero delta, whatever setValue() did in between.
ReadAndClearPerAcceptedUpdate == Polled => (out.flag = pending.wasAccepted)

(***************************************************************************)
(* SpecAccel: getAcceleratedDelta() on its own.  The acceleration mode is  *)
(* set, and the function is called with base delta +1 or -1 while millis() *)
(* returns one of AccelTimes; the differences of these instants fall in    *)
(* every tier of every curve, and some are taken across the wrap of the    *)
(* clock.  prev holds the out of the call before the last one.             *)
(***************************************************************************)
AccelTimes == {0, 10, 35, 90, 200, 500, 1020}

GetAcceleratedDeltaCall(baseDelta, now) ==
  /\ lastUpdateTime' = AcceleratedTime(now)
  /\ out' = [Idle EXCEPT !.op = "getAcceleratedDelta",
                         !.delta = baseDelta,
                         !.ret = getAcceleratedDelta(baseDelta, now),
                         !.elapsed = IF accelMode = "NONE" THEN 0
                                     ELSE TimeDelta(now),
                         !.last = lastUpdateTime]
  /\ UNCHANGED <<value, minVal, maxVal, valChanged, button, btnChanged, periodic,
                 invert, callback, btnCallback, accelMode, stateMachine,
                 curState>>

AccelSetAcceleration ==
  /\ \E mode \in AccelerationModes : SetAccelerationCall(mode)
  /\ prev' = out
  /\ UNCHANGED <<turn, seeded, pending, frames>>

AccelGetAcceleratedDelta ==
  /\ \E baseDelta \in {1, 0 - 1}, now \in AccelTimes :
       GetAcceleratedDeltaCall(baseDelta, now)
  /\ prev' = out
  /\ UNCHANGED <<turn, seeded, pending, frames>>

NextAccel ==
  \/ AccelSetAcceleration
  \/ AccelGetAcceleratedDelta

SpecAccel == Init /\ [][NextAccel]_vars

Accelerated(o) == o.op = "getAcceleratedDelta"

\* the multiplier a call applied to its base delta of +1 or -1
AppliedMultiplier(o) == o.ret * o.delta

(***************************************************************************)
(* C15.  In the modes SLOW, MEDIUM and FAST the multiplier is at least 1   *)
(* (the sign of the base delta is kept), is exactly 1 once 250 ms or more  *)
(* have elapsed, and does not grow with the elapsed time: of two calls in  *)
(* the same mode, the one with the larger elapsed time (now minus          *)
(* lastUpdateTime, an unsigned difference) has the smaller or equal        *)
(* multiplier.  In mode NONE the base delta is returned as it is and       *)
(* lastUpdateTime is not written.                                          *)
(***************************************************************************)
AccelerationMonotone ==
  Accelerated(out) =>
    IF accelMode = "NONE"
      THEN /\ out.ret = out.delta
           /\ lastUpdateTime = out.last
      ELSE /\ AppliedMultiplier(out) >= 1
           /\ (out.elapsed >= 250) => AppliedMultiplier(out) = 1
           /\ Accelerated(prev) =>
                /\ (prev.elapsed <= out.elapsed) =>
                     AppliedMultiplier(prev) >= AppliedMultiplier(out)
                /\ (out.elapsed <= prev.elapsed) =>
                     AppliedMultiplier(out) >= AppliedMultiplier(prev)

\* FAST: a step 25 ms after the last one was scaled by 20, the next one,
\* 55 ms later, by 12, with the sign of the backward base delta kept
AccelerationMonotoneWitness ==
  /\ Accelerated(out)
  /\ Accelerated(prev)
  /\ accelMode = "FAST"
  /\ prev.elapsed = 25
  /\ prev.ret = 20
  /\ out.elapsed = 55
  /\ out.ret = 0 - 12

(***************************************************************************)
(* C16.  With the limits at the full range of counter_t (as constructed,   *)
(* or after setLimits with min >= max; periodic is then true), no update() *)
(* computes a sum value + delta outside TypeMin..TypeMax: UP at TypeMax    *)
(* and DOWN at TypeMin wrap around without the addition overflowing.       *)
(***************************************************************************)
FullRange == minVal = TypeMin /\ maxVal = TypeMax /\ periodic

NoOverflowAtTypeRange == (Updated /\ FullRange) => ~Overflowed

(***************************************************************************)
(* C18.  update() preserves the range: when minVal <= value <= maxVal      *)
(* holds before the call it holds after it, for every sample, acceleration *)
(* mode, elapsed time and limit setting, periodic or not.                  *)
(***************************************************************************)
RangePreserved ==
  (Updated /\ minVal <= out.old /\ out.old <= maxVal) =>
    (minVal <= value /\ value <= maxVal)

\* Supplementary to C18: the step holds in every update() whose sum
\* value + delta stays in the range of counter_t.
RangePreservedWithoutOverflow ==
  (Updated /\ ~Overflowed /\ minVal <= out.old /\ out.old <= maxVal) =>
    (minVal <= value /\ value <= maxVal)

(***************************************************************************)
(* C19.  An update() that returns 0 leaves value as it was and invokes no  *)
(* value callback, in every reachable configuration, those with value      *)
(* outside minVal..maxVal included.                                        *)
(***************************************************************************)
ZeroReturnKeepsValue ==
  (Updated /\ out.ret = 0) => (value = out.old /\ ValueCalls = <<>>)

\* Supplementary to C19: it holds in every update() that starts with value
\* inside minVal..maxVal.
ZeroReturnKeepsValueInRange ==
  (Updated /\ out.ret = 0 /\ minVal <= out.old /\ out.old <= maxVal) =>
    (value = out.old /\ ValueCalls = <<>>)

(***************************************************************************)
(* C20.  In the modes half and halfAlt, once begin() has seeded the        *)
(* decoder and as long as setCountMode() is not called again, no sequence  *)
(* of update() calls, illegal two-bit jumps included, brings the decoder   *)
(* to the state C_ccw, whose row answers every sample with C_ccw and ERR.  *)
(***************************************************************************)
HalfNeverCcw == (seeded /\ stateMachine = "Half") => curState # C_ccw

\* halfAlt: the counter-clockwise step out of D_ccw on sample 10 (input 11)
\* counted DOWN and went to C_cw
HalfNeverCcwWitness ==
  /\ seeded
  /\ stateMachine = "Half"
  /\ invert = 1
  /\ Updated
  /\ out.from = D_ccw
  /\ out.dir = DOWN
  /\ curState = C_cw

(***************************************************************************)
(* SpecReentrant: update() executed one access to a member at a time, so   *)
(* that a second call (from a nested interrupt) can start between any two  *)
(* of them, also between the load and the store of one statement, and runs *)
(* to its return before the first one resumes.  update() takes no lock and *)
(* its members are plain, so the accesses a statement makes are those the  *)
(* build gives it; both builds of the two calls are followed:              *)
(*   reload = TRUE   every statement loads the members it reads and stores *)
(*                   the members it writes (unoptimised builds): line 302  *)
(*                   stores the table cell with its direction tag, lines   *)
(*                   303 and 304 load curState again, every bounds test    *)
(*                   and every assignment loads value again;               *)
(*   reload = FALSE  members are kept in registers (optimised builds):     *)
(*                   curState is loaded once at line 302 and stored once,  *)
(*                   stripped, at line 304; value is loaded once by the    *)
(*                   first bounds test and stored once by the branch.      *)
(* The limits are set to the saturating range 0..3 first, no callback is   *)
(* attached, acceleration is off and the button is not pressed.  Calls     *)
(* follow one another in any number; once a call has been interrupted by a *)
(* second one, the scenario ends with the return of the interrupted call.  *)
(*                                                                         *)
(* frames holds the calls in flight, the running one first, each with its  *)
(* position pc and its locals: input, direction, delta, the curState (cs)  *)
(* and the value (v) it loaded last, the branch its bounds tests selected  *)
(* and the delta it will return.  While a call is in flight out holds the  *)
(* state it started from (from, old), its sample (pa, pb) and, in nest,    *)
(* the sample of the call that interrupted it; on its return op becomes    *)
(* "update".                                                               *)
(***************************************************************************)
Bytes == 0..255

\* (*stateMachine)[state][input]: with state beyond the 7 rows the read is
\* out of the table's bounds and yields whatever byte lies there
TableRead(sm, state, input) ==
  IF state \in 0..6 THEN {Lookup(sm, state, input)} ELSE Bytes

\* value + delta <= maxVal (UP), value + delta >= minVal (DOWN) on value v
FullFits(direction, v, delta) ==
  IF direction = UP THEN v + delta <= maxVal
  ELSE v + delta >= minVal

\* value < maxVal (UP), value > minVal (DOWN) on value v
PartialFits(direction, v) ==
  IF direction = UP THEN v < maxVal ELSE v > minVal

\* the branch left when neither test passed
LastBranch == IF periodic THEN "wrap" ELSE "reject"

\* the assignments of the selected branch, on the value v the call loaded
UpBody(branch, v, delta) ==
  CASE branch = "full" -> [value |-> Wrap(v + delta), changed |-> TRUE, ret |-> delta]
    [] branch = "partial" -> [value |-> maxVal, changed |-> TRUE, ret |-> Wrap(maxVal - v)]
    [] branch = "wrap" -> [value |-> minVal, changed |-> TRUE, ret |-> delta]
    [] branch = "reject" -> [value |-> maxVal, changed |-> FALSE, ret |-> 0]

DownBody(branch, v, delta) ==
  CASE branch = "full" -> [value |-> Wrap(v + delta), changed |-> TRUE, ret |-> delta]
    [] branch = "partial" -> [value |-> minVal, changed |-> TRUE, ret |-> Wrap(minVal - v)]
    [] branch = "wrap" -> [value |-> maxVal, changed |-> TRUE, ret |-> delta]
    [] branch = "reject" -> [value |-> minVal, changed |-> FALSE, ret |-> 0]

Frame(phaseA, phaseB, reload) ==
  [pc |-> "load302", reload |-> reload,
   input |-> Input(phaseA, phaseB, invert), cs |-> 0, direction |-> 0,
   delta |-> 0, v |-> 0, branch |-> "none", ret |-> 0]

\* the running call
Running == Head(frames)

At(pc) == frames # <<>> /\ Running.pc = pc

\* the running call moves on with its locals changed
Goto(frame) == frames' = <<frame>> \o Tail(frames)

\* the running call returns ret; the return of the outermost call is recorded
Return(ret) ==
  /\ frames' = Tail(frames)
  /\ out' = IF Tail(frames) = <<>>
              THEN [out EXCEPT !.op = "update", !.dir = Running.direction,
                               !.delta = Running.delta, !.ret = ret]
              ELSE out

\* entry of update() up to the computation of input (the button is not pressed)
ReCall ==
  /\ frames = <<>>
  /\ maxVal # TypeMax
  /\ out.nest = <<>>
  /\ ~ButtonChanges(0)
  /\ \E a \in Bit, b \in Bit, reload \in BOOLEAN :
       /\ frames' = <<Frame(a, b, reload)>>
       /\ out' = [Idle EXCEPT !.op = "running", !.pa = a, !.pb = b,
                              !.from = curState, !.old = value,
                              !.fwd = ButtonFirst(0)]
  /\ UNCHANGED <<engine, turn, seeded, pending, prev>>

\* a second update(), of the same build, starts while the first one is
\* between two of its accesses (one interruption per scenario)
ReInterrupt ==
  /\ Len(frames) = 1
  /\ out.nest = <<>>
  /\ ~ButtonChanges(0)
  /\ \E a \in Bit, b \in Bit :
       /\ frames' = <<Frame(a, b, Running.reload)>> \o frames
       /\ out' = [out EXCEPT !.nest = <<a, b>>]
  /\ UNCHANGED <<engine, turn, seeded, pending, prev>>

\* line 302, the load of curState that indexes the table
ReLoadState ==
  /\ At("load302")
  /\ stateMachine # NoStateMachine
  /\ Goto([Running EXCEPT !.cs = curState,
                          !.pc = IF Running.reload THEN "store302"
                                 ELSE "store304"])
  /\ UNCHANGED <<engine, out, turn, seeded, pending, prev>>

\* line 302, the store of the table cell, direction tag included
ReStoreEntry ==
  /\ At("store302")
  /\ curState' \in TableRead(stateMachine, Running.cs, Running.input)
  /\ Goto([Running EXCEPT !.pc = "load303"])
  /\ UNCHANGED <<value, minVal, maxVal, valChanged, button, btnChanged, periodic,
                 invert, callback, btnCallback, accelMode, lastUpdateTime,
                 stateMachine, out, turn, seeded, pending, prev>>

\* line 303, uint8_t direction = curState & 0xF0, on curState as loaded now
ReDirection ==
  /\ At("load303")
  /\ Goto([Running EXCEPT !.pc = "load304",
                          !.direction = DirectionOf(curState)])
  /\ UNCHANGED <<engine, out, turn, seeded, pending, prev>>

\* line 304, the load of curState &= 0x0F
ReLoadStrip ==
  /\ At("load304")
  /\ Goto([Running EXCEPT !.pc = "store304", !.cs = curState])
  /\ UNCHANGED <<engine, out, turn, seeded, pending, prev>>

\* line 304, the store of curState &= 0x0F: of the byte line 304 loaded, or,
\* with members in registers, of the table cell read for the curState that
\* line 302 loaded, from which the direction is taken as well
ReStrip ==
  /\ At("store304")
  /\ IF Running.reload
       THEN /\ curState' = StripDirection(Running.cs)
            /\ Goto([Running EXCEPT !.pc = "dispatch"])
       ELSE \E entry \in TableRead(stateMachine, Running.cs, Running.input) :
              /\ curState' = StripDirection(entry)
              /\ Goto([Running EXCEPT !.pc = "dispatch",
                                      !.direction = DirectionOf(entry)])
  /\ UNCHANGED <<value, minVal, maxVal, valChanged, button, btnChanged, periodic,
                 invert, callback, btnCallback, accelMode, lastUpdateTime,
                 stateMachine, out, turn, seeded, pending, prev>>

\* if (direction == UP) / (direction == DOWN) and the accelerated delta;
\* without a direction the call goes to its return of 0
ReDispatch ==
  /\ At("dispatch")
  /\ IF Running.direction \in {UP, DOWN}
       THEN /\ Goto([Running EXCEPT
                       !.pc = "test1",
                       !.delta = IF Running.direction = UP
                                   THEN getAcceleratedDelta(1, 0)
                                   ELSE getAcceleratedDelta(0 - 1, 0)])
            /\ lastUpdateTime' = AcceleratedTime(0)
       ELSE /\ Goto([Running EXCEPT !.pc = "return", !.ret = 0])
            /\ lastUpdateTime' = lastUpdateTime
  /\ UNCHANGED <<value, minVal, maxVal, valChanged, button, btnChanged, periodic,
                 invert, callback, btnCallback, accelMode, stateMachine,
                 curState, out, turn, seeded, pending, prev>>

\* line 310 (343): the first bounds test loads value.  With members in
\* registers this is the only load of value: the later test and the branch
\* work on it.
ReTestFull ==
  /\ At("test1")
  /\ LET f == Running
         fits == FullFits(f.direction, value, f.delta)
     IN  Goto([f EXCEPT
                 !.v = value,
                 !.branch = IF fits THEN "full"
                            ELSE IF f.reload THEN "none"
                            ELSE IF PartialFits(f.direction, value) THEN "partial"
                            ELSE LastBranch,
                 !.pc = IF f.reload
                          THEN (IF fits THEN "load" ELSE "test2")
                          ELSE "store"])
  /\ UNCHANGED <<engine, out, turn, seeded, pending, prev>>

\* line 318 (351): the second bounds test loads value again; when it fails,
\* line 327 (360) tests periodic
ReTestPartial ==
  /\ At("test2")
  /\ LET f == Running
         fits == PartialFits(f.direction, value)
     IN  Goto([f EXCEPT !.v = value,
                        !.branch = IF fits THEN "partial" ELSE LastBranch,
                        !.pc = IF fits THEN "load" ELSE "store"])
  /\ UNCHANGED <<engine, out, turn, seeded, pending, prev>>

\* line 312 (345), value += delta, and line 320 (353), maxVal - value: the
\* load of value
ReLoadValue ==
  /\ At("load")
  /\ Goto([Running EXCEPT !.v = value, !.pc = "store"])
  /\ UNCHANGED <<engine, out, turn, seeded, pending, prev>>

\* the store to value of the selected branch; the rejected branch then
\* goes to its return of 0
ReStoreValue ==
  /\ At("store")
  /\ LET f == Running
         res == IF f.direction = UP THEN UpBody(f.branch, f.v, f.delta)
                ELSE DownBody(f.branch, f.v, f.delta)
     IN  /\ value' = res.value
         /\ Goto([f EXCEPT !.pc = IF res.changed THEN "flag" ELSE "return",
                           !.ret = res.ret])
  /\ UNCHANGED <<minVal, maxVal, valChanged, button, btnChanged, periodic,
                 invert, callback, btnCallback, accelMode, lastUpdateTime,
                 stateMachine, curState, out, turn, seeded, pending, prev>>

\* valChanged = true; no value callback is attached
ReFlag ==
  /\ At("flag")
  /\ ~callback
  /\ valChanged' = TRUE
  /\ Goto([Running EXCEPT !.pc = "return"])
  /\ UNCHANGED <<value, minVal, maxVal, button, btnChanged, periodic, invert,
                 callback, btnCallback, accelMode, lastUpdateTime, stateMachine,
                 curState, out, turn, seeded, pending, prev>>

\* the return of the call, after its last store
ReReturn ==
  /\ At("return")
  /\ Return(Running.ret)
  /\ UNCHANGED <<engine, turn, seeded, pending, prev>>

ReSetLimits ==
  /\ frames = <<>>
  /\ maxVal = TypeMax
  /\ SetLimitsCall(0, 3, FALSE)
  /\ UNCHANGED <<aside, seeded>>

NextReentrant ==
  \/ ReSetLimits
  \/ ReCall
  \/ ReInterrupt
  \/ ReLoadState
  \/ ReStoreEntry
  \/ ReDirection
  \/ ReLoadStrip
  \/ ReStrip
  \/ ReDispatch
  \/ ReTestFull
  \/ ReTestPartial
  \/ ReLoadValue
  \/ ReStoreValue
  \/ ReFlag
  \/ ReReturn

SpecReentrant == Init /\ [][NextReentrant]_vars

\* curState and value after update(phaseA, phaseB) run alone on state s
Sequential(s, phaseA, phaseB) ==
  LET entry == Lookup(stateMachine, s[1], Input(phaseA, phaseB, invert))
      direction == DirectionOf(entry)
      v == IF direction = UP
             THEN CountUp(s[2], getAcceleratedDelta(1, 0), FALSE).value
           ELSE IF direction = DOWN
             THEN CountDown(s[2], getAcceleratedDelta(0 - 1, 0), FALSE).value
           ELSE s[2]
  IN  <<StripDirection(entry), v>>

\* the last call has returned and no call is in flight
Returned == frames = <<>> /\ out.op = "update"

\* the two orders in which the interrupted call and the interrupting call
\* can follow one another
FirstThenSecond ==
  Sequential(Sequential(<<out.from, out.old>>, out.pa, out.pb),
             out.nest[1], out.nest[2])

SecondThenFirst ==
  Sequential(Sequential(<<out.from, out.old>>, out.nest[1], out.nest[2]),
             out.pa, out.pb)

(***************************************************************************)
(* C17.  update() is not reentrant.  As long as the calls follow one       *)
(* another, curState is in 0..6 between calls and each call leaves the     *)
(* curState and the value of its sequential execution.  When a second call *)
(* runs while a first one is in flight, a state is reachable in which      *)
(* curState is outside 0..6, or in which curState and value are those of   *)
(* neither sequential order of the two calls.                              *)
(***************************************************************************)
SequentialCallsAreSafe ==
  (frames = <<>> /\ out.nest = <<>>) =>
    /\ curState \in 0..6
    /\ Returned =>
         <<curState, value>> = Sequential(<<out.from, out.old>>, out.pa, out.pb)

\* the interrupted call has returned with curState outside 0..6, and with a
\* value that neither order of the two calls produces
SequentialCallsAreSafeWitness ==
  /\ Returned
  /\ out.nest # <<>>
  /\ curState \notin 0..6
  /\ value # FirstThenSecond[2]
  /\ value # SecondThenFirst[2]

=============================================================================
